---- MODULE Spec2Model ----
(***************************************************************************)
(* A model of the non_empty crate: NonEmptyVec / NonEmptySlice (a Vec and  *)
(* a slice that always hold at least one element), NonEmptyIter /          *)
(* NonEmptyMap (the iterator adapter whose collect() rebuilds a            *)
(* NonEmptyVec) and SortedVec / SortedSlice (sorted, deduplicated).        *)
(*                                                                         *)
(* A Vec<T> or [T] is a TLA+ sequence (index 0 of the source is index 1    *)
(* here).  A panic (an out-of-range index, an unwrap on Err) is the value  *)
(* Panic.                                                                  *)
(***************************************************************************)
EXTENDS Integers, Sequences, FiniteSets, TLC

\* ------------------------------------------------------------------ bounds
\* The longest vector, the longest plain slice or Vec handed to a call, and
\* the largest element.
MaxLen == 3
MaxIn == 2
MaxVal == 2
MaxNone == 2

Vals == 1..MaxVal
SeqsUpTo(n) == UNION {[1..k -> Vals] : k \in 0..n}
Seqs == SeqsUpTo(MaxLen)
Inputs == SeqsUpTo(MaxIn)
NonEmptySeqs == {s \in Seqs : Len(s) >= 1}

VARIABLES
    inner,      \* NonEmptyVec.inner: the Vec<T> the vector under test owns
    call,       \* the last call on it: its name, arguments and the vector before
    ret,        \* what the last call returned
    it,         \* the NonEmptyIter / NonEmptyMap borrowed from the vector
    nbox,       \* a Box<NonEmptySlice>: whether it is live, its inner
    svec,       \* a SortedVec: whether it is live (not moved out of), its inner
    sbox,       \* a Box<SortedSlice>: whether it is live, its inner
    scall       \* the last call of the sorted family: its name and arguments

vars == <<inner, call, ret, it, nbox, svec, sbox, scall>>
nonEmptyVars == <<inner, call, ret, it, nbox>>
sortedVars == <<svec, sbox, scall>>

\* ----------------------------------------------------------- return values
Unit == [tag |-> "Unit", elem |-> 0, seq |-> <<>>]
Panic == [tag |-> "Panic", elem |-> 0, seq |-> <<>>]
Elem(x) == [tag |-> "Elem", elem |-> x, seq |-> <<>>]
Slice(s) == [tag |-> "Slice", elem |-> 0, seq |-> s]
Ok(s) == [tag |-> "Ok", elem |-> 0, seq |-> s]
ErrEmpty == [tag |-> "Err", elem |-> 0, seq |-> <<>>]
Some(x) == [tag |-> "Some", elem |-> x, seq |-> <<>>]
None == [tag |-> "None", elem |-> 0, seq |-> <<>>]

Call(op, n, xs, before) == [op |-> op, n |-> n, xs |-> xs, before |-> before]

\* ------------------------------------------------------- std Vec operations
\* Vec::reverse: element i goes to len-1-i.
Vec_reverse(s) == [i \in 1..Len(s) |-> s[Len(s) + 1 - i]]

\* Vec::truncate(len): keeps the first len elements; no effect when len is
\* greater than the current length.
Vec_truncate(s, len) == IF len >= Len(s) THEN s ELSE SubSeq(s, 1, len)

\* Vec::dedup: walks the vector and drops every element equal to the last
\* element kept.
RECURSIVE dedup_from(_, _, _)
dedup_from(s, i, acc) ==
    IF i > Len(s) THEN acc
    ELSE IF s[i] = acc[Len(acc)] THEN dedup_from(s, i + 1, acc)
    ELSE dedup_from(s, i + 1, Append(acc, s[i]))

Vec_dedup(s) == IF Len(s) <= 1 THEN s ELSE dedup_from(s, 2, <<s[1]>>)

\* ------------------------------------------------------ NonEmptyVec (vec.rs)
one(first_) == <<first_>>

\* The capacity only reserves storage.
with_capacity(first_, capacity) == Append(<<>>, first_)

first(s) == IF Len(s) = 0 THEN Panic ELSE Elem(s[1])

\* Mutant: the tail taken from index 0.
tail_from_zero(s) == IF Len(s) < 1 THEN Panic ELSE Slice(SubSeq(s, 1, Len(s)))

tail(s) == IF Len(s) < 1 THEN Panic ELSE Slice(SubSeq(s, 2, Len(s)))

last(s) == IF Len(s) = 0 THEN Panic ELSE Elem(s[Len(s)])

init(s) == IF Len(s) = 0 THEN Panic ELSE Slice(SubSeq(s, 1, Len(s) - 1))

\* Mutant: the value inserted at the front.
push_front(s, value) == <<value>> \o s

push(s, value) == Append(s, value)

\* Mutant: a rotation by one instead of a reversal.
reverse_rotate(s) == IF Len(s) = 0 THEN s ELSE Append(SubSeq(s, 2, Len(s)), s[1])

reverse(s) == Vec_reverse(s)

\* Mutants: the length off by one, downwards and upwards.
truncate_below(s, len) == Vec_truncate(s, len - 1)

truncate_above(s, len) == Vec_truncate(s, len + 1)

\* Mutant: a len past the end pads the vector with its last element.
truncate_resizes(s, len) ==
    IF len > Len(s) /\ Len(s) > 0
    THEN s \o [i \in 1..(len - Len(s)) |-> s[Len(s)]]
    ELSE Vec_truncate(s, len)

truncate(s, len) == Vec_truncate(s, len)

\* Mutant: every repeated value dropped, adjacent or not.
RECURSIVE dedup_all_from(_, _, _)
dedup_all_from(s, i, acc) ==
    IF i > Len(s) THEN acc
    ELSE IF \E k \in 1..Len(acc) : acc[k] = s[i] THEN dedup_all_from(s, i + 1, acc)
    ELSE dedup_all_from(s, i + 1, Append(acc, s[i]))

dedup_all(s) == dedup_all_from(s, 1, <<>>)

dedup(s) == Vec_dedup(s)

from_init_last(init_, last_) == Append(<<>> \o init_, last_)

from_first_tail(first_, tail_) == Append(<<>>, first_) \o tail_

extend_from_slice(s, other) == s \o other

extend(s, iter) == s \o iter

as_slice(s) == s

as_vec(s) == s

\* Mutant: the Vec handed out lacks the last element.
into_vec_loses_last(s) == SubSeq(s, 1, Len(s) - 1)

into_vec(s) == s

\* Mutant: a one-element Vec refused as well.
try_from_refuses_one(vec) == IF Len(vec) <= 1 THEN ErrEmpty ELSE Ok(vec)

try_from(vec) == IF Len(vec) = 0 THEN ErrEmpty ELSE Ok(vec)

\* ------------------------------------------------- NonEmptySlice (slice.rs)
\* The unchecked constructors reinterpret the slice (repr(transparent)): the
\* view has the elements of the slice it was made from.  Their debug_assert
\* (and the undefined behaviour of an empty view) needs an empty slice,
\* which no caller below passes.
new_unchecked(slice) == slice

new_unchecked_mut(slice) == slice

unchecked_boxed(slice) == slice

try_from_slice(slice) ==
    IF Len(slice) # 0 THEN Ok(new_unchecked(slice)) ELSE ErrEmpty

slice_try_from(value) == try_from_slice(value)

box_try_from(value) ==
    IF Len(value) # 0 THEN Ok(unchecked_boxed(value)) ELSE ErrEmpty

slice_first(s) == IF Len(s) = 0 THEN Panic ELSE Elem(s[1])

slice_tail(s) == IF Len(s) < 1 THEN Panic ELSE Slice(SubSeq(s, 2, Len(s)))

slice_last(s) == IF Len(s) = 0 THEN Panic ELSE Elem(s[Len(s)])

slice_init(s) == IF Len(s) = 0 THEN Panic ELSE Slice(SubSeq(s, 1, Len(s) - 1))

slice_as_slice(s) == s

\* Mutant: the reversal loses the element that was first.
slice_reverse_loses_one(s) == SubSeq(Vec_reverse(s), 1, Len(s) - 1)

slice_reverse(s) == Vec_reverse(s)

\* NonEmptyVec::as_non_empty_slice / as_non_empty_slice_mut: the view of the
\* vector's own storage.
as_non_empty_slice(s) == new_unchecked(s)

as_non_empty_slice_mut(s) == new_unchecked_mut(s)

\* ------------------------------------- NonEmptyIter / NonEmptyMap (iter.rs)
\* The closures handed to map: x * 10, x + 1 and a constant.
Closures ==
    { [x \in Vals |-> x * 10], [x \in Vals |-> x + 1], [x \in Vals |-> 7] }

\* std::slice::Iter over a slice: the slice and how many items were taken.
Iter_new(slice) == [src |-> slice, pos |-> 0]

Iter_next(i) ==
    IF i.pos < Len(i.src)
    THEN [item |-> Some(i.src[i.pos + 1]), iter |-> [i EXCEPT !.pos = @ + 1]]
    ELSE [item |-> None, iter |-> i]

\* The items Iter still has to yield.
Iter_rest(i) == SubSeq(i.src, i.pos + 1, Len(i.src))

\* NonEmptyIter(iter): a wrapper of the std iterator, no check.
iter_new_unchecked(iter_) == iter_

\* The iter() of a non-empty container: its slice iterator, wrapped.
iter(s) == iter_new_unchecked(Iter_new(as_non_empty_slice(s)))

\* Mutant: an exhausted iterator starts again from the first element.
iter_next_restarts(ne) ==
    IF ne.pos < Len(ne.src) THEN Iter_next(ne) ELSE Iter_next([ne EXCEPT !.pos = 0])

\* NonEmptyIter::next: self.0.next().
iter_next(ne) == Iter_next(ne)

NonEmptyMap_new(iter_, f) == [iter |-> iter_, f |-> f]

map(ne, f) == NonEmptyMap_new(ne, f)

\* NonEmptyMap::next: self.iter.next().map(&mut self.f).
map_next(m) ==
    LET r == iter_next(m.iter) IN
    [item |-> IF r.item.tag = "Some" THEN Some(m.f[r.item.elem]) ELSE None,
     map |-> [m EXCEPT !.iter = r.iter]]

\* Result::unwrap.
unwrap(r) == IF r.tag = "Ok" THEN Slice(r.seq) ELSE Panic

\* NonEmptyVec::into_boxed_slice: the inner Vec boxed, wrapped unchecked.
into_boxed_slice(s) == unchecked_boxed(s)

\* Mutant: the copy lacks the last element of the view.
to_non_empty_vec_loses_last(s) == unwrap(try_from(SubSeq(s, 1, Len(s) - 1)))

\* NonEmptySlice::to_non_empty_vec: self.inner.to_vec().try_into().unwrap().
to_non_empty_vec(s) == unwrap(try_from(s))

\* Box<NonEmptySlice>::clone: self.to_non_empty_vec().into_boxed_slice().
slice_box_clone(b) ==
    LET v == to_non_empty_vec(b) IN
    IF v.tag = "Panic" THEN Panic ELSE Slice(into_boxed_slice(v.seq))

\* Mutant: the first remaining item is skipped by collect.
collect_skips_one(m) ==
    LET rest == Iter_rest(m.iter) IN
    unwrap(try_from([k \in 1..(Len(rest) - 1) |-> m.f[rest[k + 1]]]))

\* NonEmptyMap<NonEmptyIter, F>::collect: what is left of the std iterator is
\* mapped and collected into a Vec, which try_from(..).unwrap() wraps.
collect(m) ==
    LET rest == Iter_rest(m.iter) IN
    unwrap(try_from([k \in 1..Len(rest) |-> m.f[rest[k]]]))

\* No iterator: the closure slot holds the identity.
Identity == [x \in Vals |-> x]
NoIter == [stage |-> "idle", iter |-> Iter_new(<<>>), f |-> Identity]

\* ------------------------------------ SortedVec / SortedSlice (sorted/*.rs)
\* The key functions handed to sort_vec_by: the value itself, the reversed
\* order, the parity.  sort_vec stores the identity.
KeyFns ==
    { [x \in Vals |-> x], [x \in Vals |-> MaxVal + 1 - x], [x \in Vals |-> x % 2] }

\* <[T]>::sort_unstable: ascending in T's own order (an insertion sort here:
\* each element is put before the first greater one).
insert_sorted(acc, x) ==
    LET k == Cardinality({i \in 1..Len(acc) : acc[i] <= x}) IN
    SubSeq(acc, 1, k) \o <<x>> \o SubSeq(acc, k + 1, Len(acc))

RECURSIVE sort_from(_, _, _)
sort_from(s, i, acc) ==
    IF i > Len(s) THEN acc ELSE sort_from(s, i + 1, insert_sorted(acc, s[i]))

sort_unstable(s) == sort_from(s, 1, <<>>)

empty == <<>>

sorted_new_unchecked(slice) == slice

sorted_unchecked_boxed(slice) == slice

as_sorted_slice(v) == sorted_new_unchecked(v)

sorted_into_boxed_slice(v) == sorted_unchecked_boxed(v)

from_sorted_vec(vec) == vec

\* Mutant: sorted, the duplicates kept.
sort_vec_keeps_duplicates(vec) == sort_unstable(vec)

\* Mutant: the duplicates dropped before the sort, not after it.
sort_vec_dedup_first(vec) == sort_unstable(Vec_dedup(vec))

sort_vec(vec) == Vec_dedup(sort_unstable(vec))

\* The key function is stored in the result; the Vec is sorted and
\* deduplicated by its elements' own order.
sort_vec_by(vec, by) == Vec_dedup(sort_unstable(vec))

box_default == sorted_into_boxed_slice(from_sorted_vec(<<>>))

to_vec(slice) == from_sorted_vec(slice)

box_clone(b) == sorted_into_boxed_slice(to_vec(b))

Live(s) == [live |-> TRUE, inner |-> s]
Dead == [live |-> FALSE, inner |-> <<>>]
SCall(op, xs, by) == [op |-> op, xs |-> xs, by |-> by]

\* ---------------------------------------------------------------- actions
\* Constructors: the vector under test is replaced by the one constructed
\* (a constructor has no vector before it).
VecOne ==
    \E x \in Vals :
        /\ inner' = one(x)
        /\ call' = Call("one", x, <<>>, <<>>)
        /\ ret' = Unit
        /\ UNCHANGED <<it, nbox, sortedVars>>

VecWithCapacity ==
    \E x \in Vals, capacity \in 0..MaxLen :
        /\ inner' = with_capacity(x, capacity)
        /\ call' = Call("with_capacity", x, <<>>, <<>>)
        /\ ret' = Unit
        /\ UNCHANGED <<it, nbox, sortedVars>>

VecFromInitLast ==
    \E xs \in Inputs, x \in Vals :
        /\ inner' = from_init_last(xs, x)
        /\ call' = Call("from_init_last", x, xs, <<>>)
        /\ ret' = Unit
        /\ UNCHANGED <<it, nbox, sortedVars>>

VecFromFirstTail ==
    \E x \in Vals, xs \in Inputs :
        /\ inner' = from_first_tail(x, xs)
        /\ call' = Call("from_first_tail", x, xs, <<>>)
        /\ ret' = Unit
        /\ UNCHANGED <<it, nbox, sortedVars>>

\* NonEmptyVec::try_from(vec): on Err no vector is constructed.
VecTryFrom ==
    \E vec \in Inputs :
        /\ ret' = try_from(vec)
        /\ inner' = IF ret'.tag = "Ok" THEN ret'.seq ELSE inner
        /\ call' = Call("try_from", 0, vec, <<>>)
        /\ UNCHANGED <<it, nbox, sortedVars>>

\* Mutators.
VecPush ==
    \E x \in Vals :
        /\ Len(inner) < MaxLen
        /\ inner' = push(inner, x)
        /\ call' = Call("push", x, <<>>, inner)
        /\ ret' = Unit
        /\ UNCHANGED <<it, nbox, sortedVars>>

VecExtend ==
    \E xs \in Inputs :
        /\ Len(inner) + Len(xs) <= MaxLen
        /\ inner' = extend(inner, xs)
        /\ call' = Call("extend", 0, xs, inner)
        /\ ret' = Unit
        /\ UNCHANGED <<it, nbox, sortedVars>>

VecExtendFromSlice ==
    \E xs \in Inputs :
        /\ Len(inner) + Len(xs) <= MaxLen
        /\ inner' = extend_from_slice(inner, xs)
        /\ call' = Call("extend_from_slice", 0, xs, inner)
        /\ ret' = Unit
        /\ UNCHANGED <<it, nbox, sortedVars>>

VecReverse ==
    /\ inner' = reverse(inner)
    /\ call' = Call("reverse", 0, <<>>, inner)
    /\ ret' = Unit
    /\ UNCHANGED <<it, nbox, sortedVars>>

VecDedup ==
    /\ inner' = dedup(inner)
    /\ call' = Call("dedup", 0, <<>>, inner)
    /\ ret' = Unit
    /\ UNCHANGED <<it, nbox, sortedVars>>

\* len is a NonZeroUsize: 0 cannot be passed.
VecTruncate ==
    \E len \in 1..(MaxLen + 1) :
        /\ inner' = truncate(inner, len)
        /\ call' = Call("truncate", len, <<>>, inner)
        /\ ret' = Unit
        /\ UNCHANGED <<it, nbox, sortedVars>>

\* The degrade-to-plain accessors, each handed back to a fallible
\* constructor: NonEmptyVec::try_from(v.into_vec()),
\* NonEmptyVec::try_from(v.as_vec().clone()) and
\* NonEmptySlice::try_from_slice(v.as_slice()).
VecIntoVecTryFrom ==
    /\ ret' = try_from(into_vec(inner))
    /\ inner' = IF ret'.tag = "Ok" THEN ret'.seq ELSE inner
    /\ call' = Call("into_vec_try_from", 0, <<>>, inner)
    /\ UNCHANGED <<it, nbox, sortedVars>>

VecAsVecTryFrom ==
    /\ ret' = try_from(as_vec(inner))
    /\ call' = Call("as_vec_try_from", 0, <<>>, inner)
    /\ UNCHANGED <<inner, it, nbox, sortedVars>>

VecAsSliceTryFromSlice ==
    /\ ret' = try_from_slice(as_slice(inner))
    /\ call' = Call("as_slice_try_from_slice", 0, <<>>, inner)
    /\ UNCHANGED <<inner, it, nbox, sortedVars>>

\* Accessors of the vector.
VecFirst ==
    /\ ret' = first(inner)
    /\ call' = Call("first", 0, <<>>, inner)
    /\ UNCHANGED inner
    /\ UNCHANGED <<it, nbox, sortedVars>>

VecTail ==
    /\ ret' = tail(inner)
    /\ call' = Call("tail", 0, <<>>, inner)
    /\ UNCHANGED inner
    /\ UNCHANGED <<it, nbox, sortedVars>>

VecLast ==
    /\ ret' = last(inner)
    /\ call' = Call("last", 0, <<>>, inner)
    /\ UNCHANGED inner
    /\ UNCHANGED <<it, nbox, sortedVars>>

VecInit ==
    /\ ret' = init(inner)
    /\ call' = Call("init", 0, <<>>, inner)
    /\ UNCHANGED inner
    /\ UNCHANGED <<it, nbox, sortedVars>>

\* Fallible constructors of the views, from a plain slice or boxed slice.
SliceTryFromSlice ==
    \E xs \in Inputs :
        /\ ret' = try_from_slice(xs)
        /\ call' = Call("try_from_slice", 0, xs, inner)
        /\ UNCHANGED inner
        /\ UNCHANGED <<it, nbox, sortedVars>>

SliceTryFrom ==
    \E xs \in Inputs :
        /\ ret' = slice_try_from(xs)
        /\ call' = Call("slice_try_from", 0, xs, inner)
        /\ UNCHANGED inner
        /\ UNCHANGED <<it, nbox, sortedVars>>

BoxTryFrom ==
    \E xs \in Inputs :
        /\ ret' = box_try_from(xs)
        /\ call' = Call("box_try_from", 0, xs, inner)
        /\ UNCHANGED inner
        /\ UNCHANGED <<it, nbox, sortedVars>>

\* Accessors of the view the vector dereferences to.
SliceFirst ==
    /\ ret' = slice_first(as_non_empty_slice(inner))
    /\ call' = Call("slice_first", 0, <<>>, inner)
    /\ UNCHANGED inner
    /\ UNCHANGED <<it, nbox, sortedVars>>

SliceTail ==
    /\ ret' = slice_tail(as_non_empty_slice(inner))
    /\ call' = Call("slice_tail", 0, <<>>, inner)
    /\ UNCHANGED inner
    /\ UNCHANGED <<it, nbox, sortedVars>>

SliceLast ==
    /\ ret' = slice_last(as_non_empty_slice(inner))
    /\ call' = Call("slice_last", 0, <<>>, inner)
    /\ UNCHANGED inner
    /\ UNCHANGED <<it, nbox, sortedVars>>

SliceInit ==
    /\ ret' = slice_init(as_non_empty_slice(inner))
    /\ call' = Call("slice_init", 0, <<>>, inner)
    /\ UNCHANGED inner
    /\ UNCHANGED <<it, nbox, sortedVars>>

\* NonEmptySlice::reverse through the mutable view: it writes the vector's
\* own storage.
SliceReverse ==
    /\ inner' = slice_reverse(as_non_empty_slice_mut(inner))
    /\ call' = Call("slice_reverse", 0, <<>>, inner)
    /\ ret' = Unit
    /\ UNCHANGED <<it, nbox, sortedVars>>

\* The iterator adapter.  it.stage: "idle" (no iterator), "iter" (a
\* NonEmptyIter), "map" (a NonEmptyMap), "collected" (collect consumed it).
IterNew ==
    /\ it.stage = "idle"
    /\ it' = [stage |-> "iter", iter |-> iter(inner), f |-> Identity]
    /\ call' = Call("iter", 0, <<>>, inner)
    /\ ret' = Unit
    /\ UNCHANGED inner
    /\ UNCHANGED <<nbox, sortedVars>>

IterNext ==
    /\ it.stage = "iter"
    /\ LET r == iter_next(it.iter)
           yielded == IF call.op = "iter_next" THEN call.xs ELSE <<>>
           nones == IF call.op = "iter_next" THEN call.n ELSE 0
       IN
        /\ nones < MaxNone
        /\ it' = [it EXCEPT !.iter = r.iter]
        /\ ret' = r.item
        /\ call' = Call("iter_next",
                        IF r.item.tag = "None" THEN nones + 1 ELSE nones,
                        IF r.item.tag = "Some"
                        THEN Append(yielded, r.item.elem) ELSE yielded,
                        inner)
    /\ UNCHANGED inner
    /\ UNCHANGED <<nbox, sortedVars>>

IterMap ==
    \E f \in Closures :
        /\ it.stage = "iter"
        /\ LET m == map(it.iter, f) IN
            it' = [stage |-> "map", iter |-> m.iter, f |-> m.f]
        /\ call' = Call("map", it.iter.pos, <<>>, inner)
        /\ ret' = Unit
        /\ UNCHANGED inner
        /\ UNCHANGED <<nbox, sortedVars>>

MapNext ==
    /\ it.stage = "map"
    /\ LET r == map_next(NonEmptyMap_new(it.iter, it.f)) IN
        /\ it' = [it EXCEPT !.iter = r.map.iter]
        /\ ret' = r.item
    /\ call' = Call("map_next", it.iter.pos, <<>>, inner)
    /\ UNCHANGED inner
    /\ UNCHANGED <<nbox, sortedVars>>

\* collect(self): call.n is the number of items taken before it.
MapCollect ==
    /\ it.stage = "map"
    /\ ret' = collect(NonEmptyMap_new(it.iter, it.f))
    /\ it' = [it EXCEPT !.stage = "collected"]
    /\ call' = Call("collect", it.iter.pos, <<>>, inner)
    /\ UNCHANGED inner
    /\ UNCHANGED <<nbox, sortedVars>>

\* The iterator or the collected result goes out of scope.
IterDrop ==
    /\ it.stage # "idle"
    /\ it' = NoIter
    /\ call' = Call("drop", 0, <<>>, inner)
    /\ ret' = Unit
    /\ UNCHANGED inner
    /\ UNCHANGED <<nbox, sortedVars>>

\* The boxed non-empty view: its clone, and the vector copied from it.
BoxClone ==
    /\ nbox.live
    /\ ret' = slice_box_clone(nbox.inner)
    /\ call' = Call("box_clone", 0, nbox.inner, inner)
    /\ UNCHANGED <<inner, it, nbox, sortedVars>>

SliceToNonEmptyVec ==
    /\ nbox.live
    /\ ret' = to_non_empty_vec(nbox.inner)
    /\ inner' = IF ret'.tag = "Slice" THEN ret'.seq ELSE inner
    /\ call' = Call("to_non_empty_vec", 0, nbox.inner, inner)
    /\ UNCHANGED <<it, nbox, sortedVars>>

\* The sorted family.
SortedEmpty ==
    /\ svec' = Live(empty)
    /\ scall' = SCall("empty", <<>>, Identity)
    /\ UNCHANGED <<sbox, nonEmptyVars>>

SortedSortVec ==
    \E vec \in Seqs :
        /\ svec' = Live(sort_vec(vec))
        /\ scall' = SCall("sort_vec", vec, Identity)
        /\ UNCHANGED <<sbox, nonEmptyVars>>

SortedSortVecBy ==
    \E vec \in Inputs, by \in KeyFns :
        /\ svec' = Live(sort_vec_by(vec, by))
        /\ scall' = SCall("sort_vec_by", vec, by)
        /\ UNCHANGED <<sbox, nonEmptyVars>>

\* into_boxed_slice(self): the SortedVec is moved into the box.
SortedIntoBoxedSlice ==
    /\ svec.live
    /\ sbox' = Live(sorted_into_boxed_slice(svec.inner))
    /\ svec' = Dead
    /\ scall' = SCall("into_boxed_slice", svec.inner, Identity)
    /\ UNCHANGED nonEmptyVars

SortedBoxDefault ==
    /\ sbox' = Live(box_default)
    /\ scall' = SCall("default", <<>>, Identity)
    /\ UNCHANGED <<svec, nonEmptyVars>>

\* SortedSlice::to_vec(&self), on the box's contents.
SortedToVec ==
    /\ sbox.live
    /\ svec' = Live(to_vec(sbox.inner))
    /\ scall' = SCall("to_vec", sbox.inner, Identity)
    /\ UNCHANGED <<sbox, nonEmptyVars>>

\* Box<SortedSlice>::clone: the clone takes the box's place.
SortedBoxClone ==
    /\ sbox.live
    /\ sbox' = Live(box_clone(sbox.inner))
    /\ scall' = SCall("clone", sbox.inner, Identity)
    /\ UNCHANGED <<svec, nonEmptyVars>>

\* as_sorted_slice(&self): the view returned is scall.xs.
SortedAsSortedSlice ==
    /\ svec.live
    /\ scall' = SCall("as_sorted_slice", as_sorted_slice(svec.inner), Identity)
    /\ UNCHANGED <<svec, sbox, nonEmptyVars>>

Init ==
    /\ \E x \in Vals : inner = one(x)
    /\ call = Call("new", 0, <<>>, <<>>)
    /\ ret = Unit
    /\ it = NoIter
    /\ nbox = Dead
    /\ svec = Live(empty)
    /\ sbox = Dead
    /\ scall = SCall("new", <<>>, Identity)

Next ==
    \/ VecOne
    \/ VecWithCapacity
    \/ VecFromInitLast
    \/ VecFromFirstTail
    \/ VecTryFrom
    \/ VecPush
    \/ VecExtend
    \/ VecExtendFromSlice
    \/ VecReverse
    \/ VecDedup
    \/ VecTruncate
    \/ VecIntoVecTryFrom
    \/ VecAsVecTryFrom
    \/ VecAsSliceTryFromSlice
    \/ VecFirst
    \/ VecTail
    \/ VecLast
    \/ VecInit
    \/ SliceTryFromSlice
    \/ SliceTryFrom
    \/ BoxTryFrom
    \/ SliceFirst
    \/ SliceTail
    \/ SliceLast
    \/ SliceInit
    \/ SliceReverse

Spec == Init /\ [][Next]_vars

\* The iterator adapter over any non-empty vector.
InitIter ==
    /\ inner \in NonEmptySeqs
    /\ call = Call("new", 0, <<>>, <<>>)
    /\ ret = Unit
    /\ it = NoIter
    /\ nbox = Dead
    /\ svec = Live(empty)
    /\ sbox = Dead
    /\ scall = SCall("new", <<>>, Identity)

NextIter ==
    \/ IterNew
    \/ IterNext
    \/ IterMap
    \/ MapNext
    \/ MapCollect
    \/ IterDrop

SpecIter == InitIter /\ [][NextIter]_vars

\* The sorted family, beside one vector that is left alone.
InitSorted ==
    /\ inner = one(1)
    /\ call = Call("new", 0, <<>>, <<>>)
    /\ ret = Unit
    /\ it = NoIter
    /\ nbox = Dead
    /\ svec = Live(empty)
    /\ sbox = Dead
    /\ scall = SCall("new", <<>>, Identity)

NextSorted ==
    \/ SortedEmpty
    \/ SortedSortVec
    \/ SortedSortVecBy
    \/ SortedIntoBoxedSlice
    \/ SortedBoxDefault
    \/ SortedToVec
    \/ SortedBoxClone
    \/ SortedAsSortedSlice

SpecSorted == InitSorted /\ [][NextSorted]_vars
\* ------------------------------------------------------------------ claims
\* C1: from any constructor and after any sequence of push, extend,
\* extend_from_slice, reverse, dedup and truncate(n), n non-zero, the vector
\* holds at least one element.
C1_NonEmpty == Len(inner) >= 1

C1_Witness ==
    /\ call.op = "truncate"
    /\ call.n = 1
    /\ Len(call.before) = MaxLen
    /\ Len(inner) = 1

\* C2: a fallible constructor returns Empty exactly when its input has
\* length 0; on any other input it succeeds with the input's length and
\* elements, in order.
FallibleCtors == {"try_from", "try_from_slice", "slice_try_from", "box_try_from"}

C2_FallibleCtor ==
    call.op \in FallibleCtors =>
        /\ (ret.tag = "Err") <=> (Len(call.xs) = 0)
        /\ ret.tag \in {"Ok", "Err"}
        /\ Len(call.xs) # 0 =>
            /\ Len(ret.seq) = Len(call.xs)
            /\ \A i \in 1..Len(call.xs) : ret.seq[i] = call.xs[i]
            /\ call.op = "try_from" =>
                /\ Len(inner) = Len(call.xs)
                /\ \A i \in 1..Len(call.xs) : inner[i] = call.xs[i]

C2_Witness ==
    /\ call.op = "try_from"
    /\ Len(call.xs) = MaxIn
    /\ ret.tag = "Ok"

\* C4: first() is element 0, last() is element n-1, tail() is elements
\* 1..n-1 and init() is elements 0..n-2 (both empty when n = 1), on the
\* vector and on the view.
C4_Accessors ==
    LET n == Len(inner) IN
    /\ call.op \in {"first", "slice_first"} =>
        ret.tag = "Elem" /\ ret.elem = inner[1]
    /\ call.op \in {"last", "slice_last"} =>
        ret.tag = "Elem" /\ ret.elem = inner[n]
    /\ call.op \in {"tail", "slice_tail"} =>
        /\ ret.tag = "Slice"
        /\ Len(ret.seq) = n - 1
        /\ \A i \in 1..(n - 1) : ret.seq[i] = inner[i + 1]
        /\ n = 1 => ret.seq = <<>>
    /\ call.op \in {"init", "slice_init"} =>
        /\ ret.tag = "Slice"
        /\ Len(ret.seq) = n - 1
        /\ \A i \in 1..(n - 1) : ret.seq[i] = inner[i]
        /\ n = 1 => ret.seq = <<>>

C4_Witness ==
    /\ call.op = "tail"
    /\ Len(inner) = MaxLen
    /\ inner[1] # inner[2]
    /\ Len(ret.seq) = MaxLen - 1

\* C5: after push(x), last() is x, the length grew by exactly 1 and the old
\* elements are where they were (first() unchanged, init() the old vector).
C5_Push ==
    call.op = "push" =>
        /\ last(inner) = Elem(call.n)
        /\ Len(inner) = Len(call.before) + 1
        /\ \A i \in 1..Len(call.before) : inner[i] = call.before[i]
        /\ first(inner) = first(call.before)
        /\ init(inner) = Slice(call.before)

C5_Witness ==
    /\ call.op = "push"
    /\ Len(call.before) >= 2
    /\ call.n # call.before[Len(call.before)]

\* C6: after truncate(n) with 1 <= n <= length, the vector has length n
\* and holds the first n elements it held before.
C6_Truncate ==
    (call.op = "truncate" /\ 1 <= call.n /\ call.n <= Len(call.before)) =>
        /\ Len(inner) = call.n
        /\ \A i \in 1..call.n : inner[i] = call.before[i]

C6_Witness ==
    /\ call.op = "truncate"
    /\ call.n = 2
    /\ Len(call.before) = 3
    /\ Len(inner) = 2

\* C7: dedup() keeps exactly the first element of every maximal run of
\* equal neighbours, in order: no two neighbours of the result are equal,
\* and equal elements that were not adjacent are kept.
RunStarts(s) == {i \in 1..Len(s) : i = 1 \/ s[i] # s[i - 1]}

C7_Dedup ==
    call.op = "dedup" =>
        LET old == call.before
            I == RunStarts(old)
        IN  /\ Len(inner) = Cardinality(I)
            /\ \E g \in [1..Len(inner) -> I] :
                /\ \A j, k \in 1..Len(inner) : j < k => g[j] < g[k]
                /\ \A k \in 1..Len(inner) : inner[k] = old[g[k]]
            /\ \A k \in 1..(Len(inner) - 1) : inner[k] # inner[k + 1]
            /\ old = <<1, 2, 1>> => inner = <<1, 2, 1>>
            /\ old = <<1, 1>> => inner = <<1>>

C7_Witness ==
    /\ call.op = "dedup"
    /\ call.before = <<1, 2, 1>>
    /\ inner = <<1, 2, 1>>

\* C8: one reverse() moves the element at index i to index length-1-i, and
\* a second reverse() restores the sequence, on the vector and through the
\* mutable view.
C8_Reverse ==
    /\ call.op \in {"reverse", "slice_reverse"} =>
        /\ Len(inner) = Len(call.before)
        /\ \A i \in 1..Len(inner) : inner[Len(inner) + 1 - i] = call.before[i]
    /\ call.op = "reverse" => reverse(inner) = call.before
    /\ call.op = "slice_reverse" =>
        slice_reverse(as_non_empty_slice_mut(inner)) = call.before

C8_Witness ==
    /\ call.op = "reverse"
    /\ Len(inner) = MaxLen
    /\ inner # call.before

\* C3: collect() on the NonEmptyMap of a NonEmptyIter never fails, in every
\* state next() calls can bring the iterator or the map to before it.
C3_CollectTotal == call.op = "collect" => ret.tag # "Panic"

\* collect() on a map whose iterator next() has exhausted.
C3_Witness ==
    /\ call.op = "collect"
    /\ call.n = Len(inner)
    /\ ret.tag = "Panic"

\* C9: mapping f over the iterator of a non-empty container and collecting
\* gives a NonEmptyVec of the container's length whose element i is f of
\* the container's element i; x * 10 over [10,20,30,40,50] gives
\* [100,200,300,400,500].
Tens == <<10, 20, 30, 40, 50>>

C9_MapCollect ==
    /\ (call.op = "collect" /\ call.n = 0) =>
        /\ ret.tag = "Slice"
        /\ Len(ret.seq) = Len(inner)
        /\ Len(ret.seq) >= 1
        /\ \A i \in 1..Len(inner) : ret.seq[i] = it.f[inner[i]]
    /\ collect(map(iter(Tens), [x \in {10, 20, 30, 40, 50} |-> x * 10]))
        = Slice(<<100, 200, 300, 400, 500>>)

C9_Witness ==
    /\ call.op = "collect"
    /\ call.n = 0
    /\ Len(inner) = MaxLen
    /\ inner[1] # inner[2]
    /\ it.f = [x \in Vals |-> x * 10]
    /\ ret.tag = "Slice"

\* C10: every SortedVec and SortedSlice the public API gives is in strict
\* ascending order: a < b for every two neighbours a, b.
StrictlyAscending(s) == \A i \in 1..(Len(s) - 1) : s[i] < s[i + 1]

C10_StrictlyAscending ==
    /\ svec.live => StrictlyAscending(svec.inner)
    /\ sbox.live => StrictlyAscending(sbox.inner)
    /\ scall.op = "as_sorted_slice" => StrictlyAscending(scall.xs)

C10_Witness ==
    /\ scall.op = "sort_vec"
    /\ Len(scall.xs) = MaxLen
    /\ scall.xs[1] > scall.xs[2]
    /\ scall.xs[1] = scall.xs[3]
    /\ svec.live
    /\ Len(svec.inner) = 2
Range(s) == {s[i] : i \in 1..Len(s)}

\* C11: sort_vec(v) holds exactly the distinct values of v, each once:
\* [3,1,2,1] gives [1,2,3], and the empty input gives SortedVec::empty().
C11_SortVec ==
    /\ scall.op = "sort_vec" =>
        /\ svec.live
        /\ Range(svec.inner) = Range(scall.xs)
        /\ Len(svec.inner) = Cardinality(Range(scall.xs))
        /\ scall.xs = <<>> => svec.inner = empty
    /\ sort_vec(<<3, 1, 2, 1>>) = <<1, 2, 3>>
    /\ sort_vec(<<>>) = empty

C11_Witness ==
    /\ scall.op = "sort_vec"
    /\ scall.xs = <<1, 2, 1>>
    /\ svec.inner = <<1, 2>>

\* C12: a NonEmptyVec turned into a plain sequence (into_vec, as_vec,
\* as_slice) and handed to the fallible constructor comes back Ok, with the
\* same elements in the same order.
RoundTrips == {"into_vec_try_from", "as_vec_try_from", "as_slice_try_from_slice"}

C12_RoundTrip ==
    call.op \in RoundTrips =>
        /\ ret.tag = "Ok"
        /\ Len(ret.seq) = Len(call.before)
        /\ \A i \in 1..Len(call.before) : ret.seq[i] = call.before[i]
        /\ inner = call.before

C12_Witness ==
    /\ call.op = "into_vec_try_from"
    /\ Len(call.before) = MaxLen
    /\ call.before[1] # call.before[MaxLen]
    /\ ret.tag = "Ok"

\* C13: sort_vec_by(v, by) is strictly ascending in by(x), holds no two
\* elements of equal key, and holds only values of v.
C13_SortVecBy ==
    scall.op = "sort_vec_by" =>
        /\ \A i \in 1..(Len(svec.inner) - 1) :
            scall.by[svec.inner[i]] < scall.by[svec.inner[i + 1]]
        /\ \A i, j \in 1..Len(svec.inner) :
            i # j => scall.by[svec.inner[i]] # scall.by[svec.inner[j]]
        /\ Range(svec.inner) \subseteq Range(scall.xs)

\* sort_vec_by with the reversed order as key, on two different values.
C13_Witness ==
    /\ scall.op = "sort_vec_by"
    /\ scall.by = [x \in Vals |-> MaxVal + 1 - x]
    /\ Len(svec.inner) = 2
    /\ scall.by[svec.inner[1]] > scall.by[svec.inner[2]]

\* C15: nothing done through the mutable view of a NonEmptyVec (the view's
\* only mutator is reverse) changes the vector's length, so the view cannot
\* shrink it below 1.
C15_ViewKeepsLength ==
    /\ Len(as_non_empty_slice_mut(inner)) = Len(inner)
    /\ call.op = "slice_reverse" =>
        /\ Len(inner) = Len(call.before)
        /\ Len(inner) >= 1

C15_Witness ==
    /\ call.op = "slice_reverse"
    /\ Len(call.before) = MaxLen
    /\ inner # call.before

\* C17: truncate(n) with n greater than the length does nothing: the
\* vector keeps its length and its elements.
C17_TruncateBeyond ==
    (call.op = "truncate" /\ call.n > Len(call.before)) =>
        /\ inner = call.before
        /\ ret = Unit

C17_Witness ==
    /\ call.op = "truncate"
    /\ call.n = Len(call.before) + 1
    /\ Len(call.before) >= 2
    /\ inner = call.before
\* The boxed views, each holding any content its constructors can give it:
\* a Box<NonEmptySlice> any non-empty sequence, a Box<SortedSlice> any
\* strictly ascending one.
InitClone ==
    /\ inner = one(1)
    /\ call = Call("new", 0, <<>>, <<>>)
    /\ ret = Unit
    /\ it = NoIter
    /\ nbox \in {Live(unchecked_boxed(s)) : s \in NonEmptySeqs}
    /\ svec = Live(empty)
    /\ sbox \in {Live(sorted_into_boxed_slice(sort_vec(s))) : s \in Seqs}
    /\ scall = SCall("new", <<>>, Identity)

NextClone ==
    \/ BoxClone
    \/ SliceToNonEmptyVec
    \/ SortedBoxClone
    \/ SortedToVec

SpecClone == InitClone /\ [][NextClone]_vars

\* C14: the clone of a boxed view (Box<NonEmptySlice>, Box<SortedSlice>) is
\* produced without failure and holds the same elements in the same order
\* as the original, which is left as it was; a sorted box is not re-sorted.
C14_BoxClone ==
    /\ call.op = "box_clone" =>
        /\ ret.tag = "Slice"
        /\ Len(ret.seq) = Len(call.xs)
        /\ \A i \in 1..Len(call.xs) : ret.seq[i] = call.xs[i]
        /\ nbox = Live(call.xs)
    /\ scall.op = "clone" =>
        /\ sbox.live
        /\ Len(sbox.inner) = Len(scall.xs)
        /\ \A i \in 1..Len(scall.xs) : sbox.inner[i] = scall.xs[i]

C14_Witness ==
    /\ call.op = "box_clone"
    /\ call.xs = <<2, 1>>
    /\ ret = Slice(<<2, 1>>)
    /\ scall.op = "clone"
    /\ sbox.inner = <<1, 2>>

\* C16: a NonEmptyIter yields the elements of its container in order, the
\* first one included, then None; once it has returned None every later
\* next() returns None.
C16_IterOrder ==
    call.op = "iter_next" =>
        /\ Len(call.xs) <= Len(inner)
        /\ \A i \in 1..Len(call.xs) : call.xs[i] = inner[i]
        /\ ret.tag = "Some" =>
            /\ call.n = 0
            /\ Len(call.xs) >= 1
            /\ ret.elem = inner[Len(call.xs)]
        /\ ret.tag # "Some" =>
            /\ ret = None
            /\ call.n >= 1
            /\ call.xs = inner

\* The second None in a row, after all of a two-element vector.
C16_Witness ==
    /\ call.op = "iter_next"
    /\ call.n = 2
    /\ ret = None
    /\ call.xs = <<2, 1>>
====
